---- MODULE Spec2Model ----
(***************************************************************************)
(* Model of the retrieval pipeline of search_service.py:                   *)
(* SearchClient.search / search_serper, LLMFilter.filter_relevant,         *)
(* ContentExtractor.extract_paragraphs and                                 *)
(* ContentSearchService.search_and_extract / _format_markdown.             *)
(*                                                                         *)
(* A Python dict is a function from a set of key strings to strings; a     *)
(* JSON element that is not an object is the one-key function NonDict.     *)
(* The HTTP services and the judge are the environment: every call draws   *)
(* its outcome from a small set.                                           *)
(***************************************************************************)
EXTENDS Integers, Sequences, FiniteSets, TLC

VARIABLES
    queries,           \* argument of search_and_extract
    sources,           \* argument of search_and_extract
    topic,             \* argument of search_and_extract
    pc,                \* position in search_and_extract
    qi,                \* index of the query of the running backend call
    si,                \* index of the source of the next request of that call
    results,           \* local list of the running search / search_serper call
    ok_hits,           \* hits of the requests of the running call that succeeded
    lastcall,          \* the backend call that returned last
    search_calls,      \* queries search was called with, in order
    serper_calls,      \* queries search_serper was called with, in order
    requests,          \* the requests issued to the backends, in order
    primary_returned,  \* concatenation of the lists search returned
    serper_returned,   \* concatenation of the lists search_serper returned
    all_results,       \* local of search_and_extract
    filter_in,         \* the list filter_relevant was called with
    judge,             \* outcome of the judge call of filter_relevant
    filtered_results,  \* local of search_and_extract
    final_results,     \* local of search_and_extract
    last,              \* outcome of the last external request
    printed,           \* lines printed by the last step
    doc,               \* value returned by search_and_extract
    inv,               \* the locals of each of two concurrent invocations
    slots,             \* the all_results list of each concurrent invocation
    world,             \* what the services answer to the concurrent invocations
    generated_articles, \* st.session_state.generated_articles
    chat               \* the last call of chat_with_ai and how it ended

vars == <<queries, sources, topic, pc, qi, si, results, ok_hits, lastcall,
          search_calls, serper_calls, requests, primary_returned,
          serper_returned, all_results, filter_in, judge,
          filtered_results, final_results, last, printed, doc,
          inv, slots, world, generated_articles, chat>>

\* the state of one invocation followed step by step
one == <<queries, sources, topic, pc, qi, si, results, ok_hits, lastcall,
         search_calls, serper_calls, requests, primary_returned,
         serper_returned, all_results, filter_in, judge,
         filtered_results, final_results, last, printed, doc>>

\* the state of the two concurrent invocations
two == <<inv, slots, world>>

\* the session state of the dashboard
session == <<generated_articles, chat>>

(* ---------------------------- bounds ----------------------------------- *)
MaxQueries == 2
MaxSources == 2
MaxBodyLen == 2
MaxResults == 2
MaxJudgeLen == 1
MaxHits == 14
MaxArticles == 2
MaxResponseLen == 3
MaxChats == 1

(* ------------------------- Config ---------------------------------------*)
MIN_PARAGRAPH_LENGTH == 50
MAX_RELEVANT_RESULTS == 10

(* ------------------------- Python helpers ------------------------------ *)
NonDict == [nondict |-> "x"]
IsDict(d) == "nondict" \notin DOMAIN d

\* dict.get(key, default)
Get(d, key, default) == IF key \in DOMAIN d THEN d[key] ELSE default

\* truth value of dict.get(key): a missing key gives None, which is falsy
Truthy(d, key) == key \in DOMAIN d /\ d[key] # ""

\* the entry rebuilt with its title left empty
SetItem_ClearTitle(d, key, value) ==
    [k \in DOMAIN d \cup {key} |->
        IF k = key THEN value ELSE IF k = "title" THEN "" ELSE d[k]]

\* d[key] = value on a dict
SetItem(d, key, value) ==
    [k \in DOMAIN d \cup {key} |-> IF k = key THEN value ELSE d[k]]

Range(s) == {s[i] : i \in 1..Len(s)}

\* all sequences over S of length at most n
SeqsUpTo(S, n) == UNION {[1..k -> S] : k \in 0..n}

(* ------------------------- the environment ----------------------------- *)
QueryNames == <<"q1", "q2", "q3", "q4">>
SourceNames == <<"s1.com", "s2.com", "s3.com", "s4.com">>
Topics == {"", "bitcoin"}

\* elements of the "results" array of the primary backend
PrimaryPool ==
    { [title |-> "A", url |-> "http://a", content |-> "about a"],
      [title |-> "B", url |-> "http://b"],
      [url |-> "http://c"],
      NonDict }

\* elements of the "organic" array of the fallback backend
SerperPool ==
    { [title |-> "A", link |-> "http://a", snippet |-> "about a"],
      [title |-> "E"],
      NonDict }

FailureKinds == {"network", "status", "json"}

\* what one HTTP request to a backend gives: an exception of requests.get,
\* raise_for_status or response.json, or the parsed body: not an object, an
\* object without the array, an object whose array is null, or the array
Responses(pool) ==
    [kind : FailureKinds \cup {"notobject", "nokey", "null"}, items : {<<>>}]
    \cup [kind : {"list"}, items : SeqsUpTo(pool, MaxBodyLen)]

\* the judge names a result that was not among the candidates
Invented == [title |-> "Z", url |-> "http://z"]

\* paragraphs of a fetched page: the text get_text(strip=True) gives and the
\* number of whitespace characters stripped around it
P50 == [text |-> "0123456789012345678901234567890123456789012345678X", pad |-> 0]
P50pad == [text |-> "0123456789012345678901234567890123456789012345678Y", pad |-> 4]
P51 == [text |-> "01234567890123456789012345678901234567890123456789L", pad |-> 0]
P52 == [text |-> "01234567890123456789012345678901234567890123456789MM", pad |-> 2]

Pages == { <<>>, <<P50>>, <<P50pad>>, <<P50, P52, P50pad, P51>> }

Fetches == [kind : {"network", "status", "parse"}, paragraphs : {<<>>}]
           \cup [kind : {"ok"}, paragraphs : Pages]

(* ------------------------- SearchClient -------------------------------- *)
\* str.strip() on the source names of the model
strip(s) == IF s = " s9.com " THEN "s9.com" ELSE s

\* for source in sources or [""]
SourcesOrBlank(srcs) == IF srcs = <<>> THEN <<"">> ELSE srcs

\* the domain restriction left out
search_query_Unscoped(query, source) == query

\* f"{query} site:{source.strip()}" if source else query
search_query(query, source) ==
    IF source # "" THEN query \o " site:" \o strip(source) ELSE query

\* the request of search returned a body whose "results" could be extended
search_ok(resp) == resp.kind \in {"list", "nokey"}

\* one iteration of the loop of search: results.extend(data.get("results", []))
\* or the except branch, which leaves results as it was
search_request(res, resp) ==
    IF resp.kind = "list" THEN res \o resp.items ELSE res

\* {"title": item.get("title", ""), "url": item.get("link", ""), ...}
serper_item(item) ==
    [title |-> Get(item, "title", ""),
     url |-> Get(item, "link", ""),
     snippet |-> Get(item, "snippet", "")]

\* number of items the loop over organic_results handles before item.get
\* raises on an element that is not an object
RECURSIVE DictPrefixLen(_)
DictPrefixLen(items) ==
    IF items = <<>> \/ ~IsDict(Head(items)) THEN 0
    ELSE 1 + DictPrefixLen(Tail(items))

\* the request of search_serper ran to its print without an exception
serper_ok(resp) ==
    \/ resp.kind = "nokey"
    \/ resp.kind = "list" /\ DictPrefixLen(resp.items) = Len(resp.items)

\* one iteration of the loop of search_serper: results.append per item until
\* the body is exhausted or an exception leaves the try block
serper_request(res, resp) ==
    IF resp.kind = "list"
    THEN res \o [i \in 1..DictPrefixLen(resp.items) |-> serper_item(resp.items[i])]
    ELSE res

(* ------------------------- ContentExtractor ---------------------------- *)
\* "\n\n".join(...)
RECURSIVE Join(_)
Join(texts) ==
    IF texts = <<>> THEN ""
    ELSE IF Len(texts) = 1 THEN texts[1]
    ELSE texts[1] \o "\n\n" \o Join(Tail(texts))

\* the length taken before the text is stripped
Qualifies_Raw(p) == Len(p.text) + p.pad > MIN_PARAGRAPH_LENGTH

\* the comparison taken as >=
Qualifies_AtLeast(p) == Len(p.text) >= MIN_PARAGRAPH_LENGTH

\* if len(p.get_text(strip=True)) > Config.MIN_PARAGRAPH_LENGTH
Qualifies(p) == Len(p.text) > MIN_PARAGRAPH_LENGTH

Texts(ps) == [i \in 1..Len(ps) |-> ps[i].text]

\* extract_paragraphs: the joined qualifying paragraphs, "" from the except
extract_paragraphs(fetch) ==
    IF fetch.kind = "ok"
    THEN Join(Texts(SelectSeq(fetch.paragraphs, Qualifies)))
    ELSE ""

(* ------------------------- LLMFilter ----------------------------------- *)
\* only the url tested
KeepsTitleUrl_UrlOnly(result) == Truthy(result, "url")

KeepsTitleUrl(result) == Truthy(result, "title") /\ Truthy(result, "url")

\* the comprehension building minimal_results; result.get raises on an
\* element that is not a dict
minimal_raises(res) == \E i \in 1..Len(res) : ~IsDict(res[i])

\* only the first hit of each url kept
minimal_results_Dedup(res) ==
    LET kept == SelectSeq(res, KeepsTitleUrl)
        firsts == {i \in 1..Len(kept) :
                      \A j \in 1..(i - 1) : kept[j]["url"] # kept[i]["url"]}
        Nth(k) == CHOOSE i \in firsts : Cardinality({j \in firsts : j <= i}) = k
    IN [k \in 1..Cardinality(firsts) |->
            [title |-> kept[Nth(k)]["title"], url |-> kept[Nth(k)]["url"]]]

minimal_results(res) ==
    LET kept == SelectSeq(res, KeepsTitleUrl)
    IN [i \in 1..Len(kept) |->
            [title |-> Get(kept[i], "title", ""), url |-> Get(kept[i], "url", "")]]

Reverse(s) == [i \in 1..Len(s) |-> s[Len(s) + 1 - i]]

\* outcomes of the judge call: an exception of the client (timeout, model
\* error, structured output that does not validate), a response whose parsed
\* is None, or a parsed RelevantResults: a short list of candidates and
\* invented results, or all the candidates in their order or reversed
JudgeOutcomes(minimal) ==
    [kind : {"error", "refusal"}, results : {<<>>}]
    \cup [kind : {"ok"},
          results : SeqsUpTo(Range(minimal) \cup {Invented}, MaxJudgeLen)
                    \cup {minimal, Reverse(minimal)}]

\* the value filter_relevant returns once minimal_results is built
filter_relevant(minimal, j) ==
    IF j.kind = "ok"
    THEN [i \in 1..Len(j.results) |->
              [title |-> j.results[i].title, url |-> j.results[i].url]]
    ELSE minimal

(* ------------------------- _format_markdown ---------------------------- *)
Line(kind, n, title, url, text) ==
    [kind |-> kind, n |-> n, title |-> title, url |-> url, text |-> text]

\* the topic printed as it is
Header_RawTopic(tp) ==
    << Line("h1", 0, "", "", "# Search and Extracted Content\n"),
       Line("topic", 0, "", "", tp),
       Line("h2", 0, "", "", "## Relevant Search Results\n") >>

Header(tp) ==
    << Line("h1", 0, "", "", "# Search and Extracted Content\n"),
       Line("topic", 0, "", "", IF tp # "" THEN tp ELSE "Not specified"),
       Line("h2", 0, "", "", "## Relevant Search Results\n") >>

NoResultsLine == Line("none", 0, "", "", "No relevant results found.")

\* the sentinel given as the default of get, which an empty text passes
ResultLines_DefaultOnly(i, result) ==
    << Line("result", i, Get(result, "title", "No Title"), Get(result, "url", "#"), ""),
       Line("label", 0, "", "", "**Extracted Content:**\n"),
       Line("fence", 0, "", "",
            Get(result, "extracted_content", "No content extracted.")) >>

\* the three lines of the loop body for result number i
ResultLines(i, result) ==
    << Line("result", i, Get(result, "title", "No Title"), Get(result, "url", "#"), ""),
       Line("label", 0, "", "", "**Extracted Content:**\n"),
       Line("fence", 0, "", "",
            IF Truthy(result, "extracted_content")
            THEN result["extracted_content"] ELSE "No content extracted.") >>

RECURSIVE ResultSections(_, _)
ResultSections(i, res) ==
    IF i > Len(res) THEN <<>>
    ELSE ResultLines(i, res[i]) \o ResultSections(i + 1, res)

\* the branch of the empty list left out
format_markdown_NoEmptyBranch(tp, res) == Header(tp) \o ResultSections(1, res)

\* nothing returned when there is no result
format_markdown_EmptyWhenNone(tp, res) ==
    IF res = <<>> THEN <<>> ELSE Header(tp) \o ResultSections(1, res)

format_markdown(tp, res) ==
    IF res = <<>> THEN Header(tp) \o <<NoResultsLine>>
    ELSE Header(tp) \o ResultSections(1, res)

\* the three backquotes that open and close a code block, written with
\* quotes
Backquotes == "'''"

\* the string an element of lines is
LineText(l) ==
    CASE l.kind = "topic" -> "**Topic:** " \o l.text \o "\n"
      [] l.kind = "result" ->
            "### Result " \o ToString(l.n) \o ": [" \o l.title \o "](" \o l.url \o ")\n"
      [] l.kind = "fence" -> Backquotes \o "\n" \o l.text \o "\n" \o Backquotes \o "\n"
      [] OTHER -> l.text

\* "\n".join(lines): the string search_and_extract returns
RECURSIVE Text(_)
Text(d) ==
    IF d = <<>> THEN ""
    ELSE IF Len(d) = 1 THEN LineText(d[1])
    ELSE LineText(d[1]) \o "\n" \o Text(Tail(d))

(* ------------------------- the caller in app.py ------------------------ *)
\* strings made of whitespace only, which strip() turns into ""
BlankStrings == {"", " ", "\n", "\n\n", " \n", "\n "}

\* search_results.strip() == "": the joined lines are blank when every line is
StripsToEmpty(d) == \A k \in 1..Len(d) : LineText(d[k]) \in BlankStrings

\* app.py: has_search_results = search_results and search_results.strip() != ""
has_search_results(d) == Text(d) # "" /\ ~StripsToEmpty(d)

(* ------------------------- search_and_extract -------------------------- *)
Prefix(s, n) == SubSeq(s, 1, n)

NoCall == [api |-> "none", query |-> "", ret |-> <<>>, ok_hits |-> <<>>, issued |-> 0]
NoRequest == [api |-> "none", q |-> "", kind |-> "none", ok |-> TRUE, paragraphs |-> <<>>]
NoJudge == [kind |-> "none", results |-> <<>>, candidates |-> <<>>]

Locals ==
    /\ qi = 1 /\ si = 1
    /\ results = <<>> /\ ok_hits = <<>>
    /\ lastcall = NoCall
    /\ search_calls = <<>> /\ serper_calls = <<>>
    /\ requests = <<>>
    /\ primary_returned = <<>> /\ serper_returned = <<>>
    /\ filter_in = <<>>
    /\ judge = NoJudge
    /\ filtered_results = <<>> /\ final_results = <<>>
    /\ last = NoRequest
    /\ printed = <<>>
    /\ doc = <<>>

\* no concurrent invocations
NoInvocations == inv = <<>> /\ slots = <<>> /\ world = <<>>

\* no call of chat_with_ai yet
NoChat == [kind |-> "none", index |-> <<>>, response |-> <<>>, before |-> <<>>,
           reply |-> <<>>, calls |-> 0]

\* app.py:181-182: the session starts without articles
NoSession == generated_articles = <<>> /\ chat = NoChat

\* a call search_and_extract(queries, sources, topic)
Init ==
    /\ queries \in {Prefix(QueryNames, n) : n \in 0..MaxQueries}
    /\ sources \in {Prefix(SourceNames, n) : n \in 0..MaxSources}
    /\ topic \in Topics
    /\ pc = IF queries = <<>> THEN "decide" ELSE "search"
    /\ all_results = <<>>
    /\ Locals
    /\ NoInvocations
    /\ NoSession

\* the responses the model lets a backend give: the hits of one invocation
\* stay within MaxResults
Fits(resp) == Len(all_results) + Len(results) + Len(resp.items) <= MaxResults

\* the fallback loop left after its first query
AfterCall_FirstQueryOnly(api) ==
    IF api = "serper" THEN "filter"
    ELSE IF qi < Len(queries) THEN pc ELSE "decide"

\* the fallback decision taken after each primary call
AfterCall_DecidePerQuery(api) ==
    IF api = "search" THEN "decide"
    ELSE IF qi < Len(queries) THEN pc ELSE "filter"

\* where search_and_extract goes on when the call for query qi has returned
AfterCall(api) ==
    IF qi < Len(queries) THEN pc
    ELSE IF api = "search" THEN "decide" ELSE "filter"

\* one request of the backend call of query qi, and the return of that call
\* to search_and_extract after the request for the last source
BackendRequest(api, resp, res2, ok, hits) ==
    LET srcs == SourcesOrBlank(sources)
        ok2 == IF ok THEN ok_hits \o hits ELSE ok_hits
    IN /\ last' = [api |-> api, q |-> search_query(queries[qi], srcs[si]),
                   kind |-> resp.kind, ok |-> ok, paragraphs |-> <<>>]
       /\ requests' = Append(requests,
                             [api |-> api, query |-> queries[qi], source |-> srcs[si],
                              q |-> search_query(queries[qi], srcs[si])])
       /\ IF si < Len(srcs)
          THEN /\ si' = si + 1
               /\ results' = res2
               /\ ok_hits' = ok2
               /\ UNCHANGED <<qi, pc, all_results, lastcall, primary_returned,
                              serper_returned>>
          ELSE /\ si' = 1
               /\ qi' = qi + 1
               /\ results' = <<>>
               /\ ok_hits' = <<>>
               /\ all_results' = all_results \o res2
               /\ lastcall' = [api |-> api, query |-> queries[qi], ret |-> res2,
                               ok_hits |-> ok2, issued |-> si]
               /\ primary_returned' = IF api = "search" THEN primary_returned \o res2
                                       ELSE primary_returned
               /\ serper_returned' = IF api = "serper" THEN serper_returned \o res2
                                      ELSE serper_returned
               /\ pc' = AfterCall(api)
       /\ UNCHANGED <<queries, sources, topic, filter_in, judge,
                      filtered_results, final_results, doc>>
       /\ UNCHANGED <<two, session>>

\* lines 204-206 with the loop of search (lines 52-71)
PrimaryRequest ==
    /\ pc = "search"
    /\ \E resp \in Responses(PrimaryPool) :
          /\ Fits(resp)
          /\ BackendRequest("search", resp, search_request(results, resp),
                            search_ok(resp), resp.items)
          /\ printed' = IF search_ok(resp) THEN <<>> ELSE <<"Search error">>
    /\ search_calls' = IF si = 1 THEN Append(search_calls, queries[qi])
                       ELSE search_calls
    /\ UNCHANGED serper_calls

\* the test taken on the list of the last call instead of the aggregate
NoPrimaryResults_LastCall == lastcall.ret = <<>>

\* line 209: not all_results
NoPrimaryResults == all_results = <<>>

\* line 209: if not all_results
Decide ==
    /\ pc = "decide"
    /\ IF NoPrimaryResults
       THEN /\ pc' = IF queries = <<>> THEN "filter" ELSE "serper"
            /\ printed' = <<"Primary search returned no results">>
       ELSE /\ pc' = "filter"
            /\ printed' = <<>>
    /\ qi' = 1 /\ si' = 1
    /\ UNCHANGED <<queries, sources, topic, results, ok_hits, lastcall,
                   search_calls, serper_calls, requests, primary_returned,
                   serper_returned, all_results, filter_in, judge,
                   filtered_results, final_results, last, doc>>
    /\ UNCHANGED <<two, session>>

\* lines 211-213 with the loop of search_serper (lines 79-117)
SerperRequest ==
    /\ pc = "serper"
    /\ \E resp \in Responses(SerperPool) :
          /\ Fits(resp)
          /\ BackendRequest("serper", resp, serper_request(results, resp),
                            serper_ok(resp),
                            [i \in 1..Len(resp.items) |-> serper_item(resp.items[i])])
          /\ printed' = IF serper_ok(resp) THEN <<"Serper API backup search found">>
                        ELSE <<"Serper API search error">>
    /\ serper_calls' = IF si = 1 THEN Append(serper_calls, queries[qi])
                       ELSE serper_calls
    /\ UNCHANGED search_calls

\* line 218: filter_relevant(topic, all_results); an exception of the
\* comprehension of lines 152-156 leaves search_and_extract
FilterStep ==
    /\ pc = "filter"
    /\ filter_in' = all_results
    /\ IF minimal_raises(all_results)
       THEN /\ pc' = "raised"
            /\ printed' = <<>>
            /\ UNCHANGED <<judge, filtered_results, last>>
       ELSE \E j \in JudgeOutcomes(minimal_results(all_results)) :
            /\ judge' = [kind |-> j.kind, results |-> j.results,
                         candidates |-> minimal_results(all_results)]
            /\ filtered_results' = filter_relevant(minimal_results(all_results), j)
            /\ last' = [api |-> "judge", q |-> topic, kind |-> j.kind,
                        ok |-> j.kind = "ok", paragraphs |-> <<>>]
            /\ printed' = <<"Minimal results">> \o
                          (IF j.kind = "ok" THEN <<"filtered_results">>
                           ELSE <<"LLM filtering error">>)
            /\ pc' = IF filtered_results' = <<>> THEN "format" ELSE "extract"
    /\ UNCHANGED <<queries, sources, topic, qi, si, results, ok_hits, lastcall,
                   search_calls, serper_calls, requests, primary_returned,
                   serper_returned, all_results, final_results, doc>>
    /\ UNCHANGED <<two, session>>

\* a result without extracted text left out
Collect_SkipEmpty(final, result) ==
    IF result["extracted_content"] = "" THEN final ELSE Append(final, result)

\* the result put in front
Collect_Front(final, result) == <<result>> \o final

\* line 226: final_results.append(result)
Collect(final, result) == Append(final, result)

\* lines 222-226: one iteration of the extraction loop
ExtractStep ==
    /\ pc = "extract"
    /\ LET i == Len(final_results) + 1
           result == filtered_results[i]
       IN \E fetch \in Fetches :
          LET content == extract_paragraphs(fetch)
              result2 == SetItem(result, "extracted_content", content)
          IN /\ filtered_results' = [filtered_results EXCEPT ![i] = result2]
             /\ final_results' = Collect(final_results, result2)
             /\ last' = [api |-> "fetch", q |-> Get(result, "url", ""),
                         kind |-> fetch.kind, ok |-> fetch.kind = "ok",
                         paragraphs |-> fetch.paragraphs]
             /\ printed' = IF fetch.kind = "ok" THEN <<>> ELSE <<"Extraction error">>
             /\ pc' = IF i = Len(filtered_results) THEN "format" ELSE "extract"
    /\ UNCHANGED <<queries, sources, topic, qi, si, results, ok_hits, lastcall,
                   search_calls, serper_calls, requests, primary_returned,
                   serper_returned, all_results, filter_in, judge, doc>>
    /\ UNCHANGED <<two, session>>

\* line 229: return self._format_markdown(topic, final_results)
FormatStep ==
    /\ pc = "format"
    /\ doc' = format_markdown(topic, final_results)
    /\ pc' = "done"
    /\ printed' = <<>>
    /\ UNCHANGED <<queries, sources, topic, qi, si, results, ok_hits, lastcall,
                   search_calls, serper_calls, requests, primary_returned,
                   serper_returned, all_results, filter_in, judge,
                   filtered_results, final_results, last>>
    /\ UNCHANGED <<two, session>>

Next == PrimaryRequest \/ Decide \/ SerperRequest \/ FilterStep \/ ExtractStep
        \/ FormatStep

Spec == Init /\ [][Next]_vars

(* ------------- filter_relevant on hit lists of any length -------------- *)
HitCycle ==
    << [title |-> "A", url |-> "http://a", content |-> "about a"],
       [title |-> "B", url |-> "http://b", snippet |-> "about b"],
       [title |-> "A", url |-> "http://a"],
       [title |-> "C", url |-> ""] >>

Cycle(n) == [i \in 1..n |-> HitCycle[((i - 1) % Len(HitCycle)) + 1]]

FilterInputs == {Cycle(n) : n \in 0..MaxHits} \cup SeqsUpTo(PrimaryPool, MaxBodyLen)

\* search_and_extract at line 218, with all_results of any length
InitFilter ==
    /\ queries = <<"q1">>
    /\ sources = <<>>
    /\ topic \in Topics
    /\ pc = "filter"
    /\ all_results \in FilterInputs
    /\ Locals
    /\ NoInvocations
    /\ NoSession

NextFilter == FilterStep \/ ExtractStep \/ FormatStep

SpecFilter == InitFilter /\ [][NextFilter]_vars

(* ------------- two invocations on one ContentSearchService ------------- *)
\* the threads that call search_and_extract on the same instance
Invocations == {1, 2}

\* the arguments of an invocation
Calls ==
    [queries : {<<"q1">>, <<"q2">>, <<"q1", "q2">>},
     sources : {<<>>, <<"s1.com", "s2.com">>},
     topic : Topics]

\* what the services outside the program answer while the invocations run:
\* the same request gets the same answer whichever invocation sends it
Worlds ==
    [primary : {"network", "list"}, serper : {"network", "list"},
     judge : {"error", "whole", "reversed"}, fetch : {"network", "ok"}]

\* the response of the primary backend to a request for query
PrimaryAnswer(w, query) ==
    IF w.primary = "list"
    THEN [kind |-> "list",
          items |-> IF query = "q1"
                    THEN <<[title |-> "A", url |-> "http://a", content |-> "about a"]>>
                    ELSE <<[title |-> "B", url |-> "http://b"]>>]
    ELSE [kind |-> "network", items |-> <<>>]

\* the response of the fallback backend to a request for query
SerperAnswer(w, query) ==
    IF w.serper = "list"
    THEN [kind |-> "list",
          items |-> IF query = "q1"
                    THEN <<[title |-> "A", link |-> "http://a", snippet |-> "about a"]>>
                    ELSE <<[title |-> "E"]>>]
    ELSE [kind |-> "network", items |-> <<>>]

\* the outcome of the judge call on the candidates
JudgeAnswer(w, minimal) ==
    IF w.judge = "error" THEN [kind |-> "error", results |-> <<>>]
    ELSE [kind |-> "ok",
          results |-> IF w.judge = "whole" THEN minimal ELSE Reverse(minimal)]

\* the outcome of fetching url
FetchAnswer(w, url) ==
    IF w.fetch = "ok"
    THEN [kind |-> "ok",
          paragraphs |-> IF url = "http://a" THEN <<P50, P52, P50pad, P51>>
                         ELSE <<P50>>]
    ELSE [kind |-> "network", paragraphs |-> <<>>]

\* the locals of search_and_extract when it is entered with the arguments of
\* call; all_results is kept in the slot of the invocation
Start(call) ==
    [queries |-> call.queries, sources |-> call.sources, topic |-> call.topic,
     pc |-> "search", qi |-> 1, si |-> 1, results |-> <<>>,
     filtered_results |-> <<>>, final_results |-> <<>>, doc |-> <<>>]

\* all_results kept as an attribute of the instance, one list for all calls
AllResultsSlot_OnInstance(i) == 1

\* line 203: all_results = [] is a local of the invocation
AllResultsSlot(i) == i

\* one request of a backend call by an invocation with locals st and
\* all_results ar (lines 204-206 and 211-213)
RequestStep(st, ar, resp, res2, api) ==
    IF st.si < Len(SourcesOrBlank(st.sources))
    THEN [st |-> [st EXCEPT !.si = st.si + 1, !.results = res2], ar |-> ar]
    ELSE [st |-> [st EXCEPT !.si = 1, !.qi = st.qi + 1, !.results = <<>>,
                            !.pc = IF st.qi < Len(st.queries) THEN st.pc
                                   ELSE IF api = "search" THEN "decide"
                                   ELSE "filter"],
          ar |-> ar \o res2]

\* one step of search_and_extract by an invocation with locals st and
\* all_results ar, in the world w
InvocationStep(st, ar, w) ==
    CASE st.pc = "search" ->
            LET resp == PrimaryAnswer(w, st.queries[st.qi])
            IN RequestStep(st, ar, resp, search_request(st.results, resp), "search")
      [] st.pc = "decide" ->
            [st |-> [st EXCEPT !.qi = 1, !.si = 1,
                               !.pc = IF ar = <<>> /\ st.queries # <<>>
                                      THEN "serper" ELSE "filter"],
             ar |-> ar]
      [] st.pc = "serper" ->
            LET resp == SerperAnswer(w, st.queries[st.qi])
            IN RequestStep(st, ar, resp, serper_request(st.results, resp), "serper")
      [] st.pc = "filter" ->
            IF minimal_raises(ar)
            THEN [st |-> [st EXCEPT !.pc = "raised"], ar |-> ar]
            ELSE LET minimal == minimal_results(ar)
                     filtered == filter_relevant(minimal, JudgeAnswer(w, minimal))
                 IN [st |-> [st EXCEPT !.filtered_results = filtered,
                                       !.pc = IF filtered = <<>> THEN "format"
                                              ELSE "extract"],
                     ar |-> ar]
      [] st.pc = "extract" ->
            LET i == Len(st.final_results) + 1
                result == st.filtered_results[i]
                content == extract_paragraphs(FetchAnswer(w, Get(result, "url", "")))
                result2 == SetItem(result, "extracted_content", content)
            IN [st |-> [st EXCEPT !.filtered_results[i] = result2,
                                  !.final_results = Collect(st.final_results, result2),
                                  !.pc = IF i = Len(st.filtered_results)
                                         THEN "format" ELSE "extract"],
                ar |-> ar]
      [] st.pc = "format" ->
            [st |-> [st EXCEPT !.doc = format_markdown(st.topic, st.final_results),
                               !.pc = "done"],
             ar |-> ar]

\* search_and_extract of an invocation run from locals st to its return
RECURSIVE Alone(_, _, _)
Alone(st, ar, w) ==
    IF st.pc \in {"done", "raised"} THEN st
    ELSE LET r == InvocationStep(st, ar, w) IN Alone(r.st, r.ar, w)

\* two threads enter search_and_extract on the same instance
InitConcurrent ==
    /\ queries = <<>>
    /\ sources = <<>>
    /\ topic = ""
    /\ pc = "idle"
    /\ all_results = <<>>
    /\ Locals
    /\ world \in Worlds
    /\ \E c1 \in Calls, c2 \in Calls : inv = <<Start(c1), Start(c2)>>
    /\ slots = <<<<>>, <<>>>>
    /\ NoSession

\* the scheduler lets invocation i take its next step
Interleave(i) ==
    /\ inv[i].pc \notin {"done", "raised"}
    /\ LET r == InvocationStep(inv[i], slots[AllResultsSlot(i)], world)
       IN /\ inv' = [inv EXCEPT ![i] = r.st]
          /\ slots' = [slots EXCEPT ![AllResultsSlot(i)] = r.ar]
    /\ UNCHANGED <<world, one, session>>

NextConcurrent == \E i \in Invocations : Interleave(i)

SpecConcurrent == InitConcurrent /\ [][NextConcurrent]_vars

(* ------------------------- chat_with_ai in app.py ---------------------- *)
\* a text is the sequence of its words and of the whitespace between them
Marker == "ARTICLE_UPDATE:"

Words == {Marker, " ", "x"}

\* the articles the writer agent produces
Articles == {<<"a">>, <<"b">>}

\* Exception of the client, a message whose content is None, or a text
ChatResponses ==
    [kind : {"raise", "none"}, text : {<<>>}]
    \cup [kind : {"text"}, text : SeqsUpTo(Words, MaxResponseLen)]

\* article_index: None, or an integer
Indices == {<<>>} \cup {<<i>> : i \in -1..MaxArticles}

\* "ARTICLE_UPDATE:" in response_content
ContainsMarker(t) == Marker \in Range(t)

FirstMarker(t) ==
    CHOOSE i \in 1..Len(t) : t[i] = Marker /\ \A j \in 1..(i - 1) : t[j] # Marker

\* response_content.split("ARTICLE_UPDATE:", 1)[0] and [1]
BeforeMarker(t) == SubSeq(t, 1, FirstMarker(t) - 1)

AfterMarker(t) == SubSeq(t, FirstMarker(t) + 1, Len(t))

RECURSIVE lstrip(_)
lstrip(t) == IF t # <<>> /\ Head(t) = " " THEN lstrip(Tail(t)) ELSE t

\* str.strip(): leading and trailing whitespace removed
StripText(t) == Reverse(lstrip(Reverse(lstrip(t))))

\* any index below the length accepted
InRange_UpperOnly(i, n) == i < n

\* 0 <= article_index < len(st.session_state.generated_articles)
InRange(i, n) == 0 <= i /\ i < n

\* list[i] = v: a negative i counts from the end; an IndexError leaves the
\* list as it was
list_setitem(l, i, v) ==
    LET k == IF i < 0 THEN Len(l) + i ELSE i
    IN IF 0 <= k /\ k < Len(l) THEN [l EXCEPT ![k + 1] = v] ELSE l

update_article(articles, article_index, new_content) ==
    IF InRange(article_index, Len(articles))
    THEN list_setitem(articles, article_index, new_content)
    ELSE articles

\* the dashboard with no search running
InitChat ==
    /\ queries = <<>>
    /\ sources = <<>>
    /\ topic = ""
    /\ pc = "idle"
    /\ all_results = <<>>
    /\ Locals
    /\ NoInvocations
    /\ NoSession

\* app.py:280 and 424: a generated article is appended
GenerateArticle ==
    /\ Len(generated_articles) < MaxArticles
    /\ \E a \in Articles : generated_articles' = Append(generated_articles, a)
    /\ chat' = [NoChat EXCEPT !.calls = chat.calls]
    /\ UNCHANGED <<one, two>>

\* chat_with_ai(message, chat_history, article_index, current_article)
ChatWithAi ==
    /\ chat.calls < MaxChats
    /\ \E index \in Indices, resp \in ChatResponses :
          LET called(kind, reply) ==
                  [kind |-> kind, index |-> index, response |-> resp.text,
                   before |-> generated_articles, reply |-> reply,
                   calls |-> chat.calls + 1]
          IN IF resp.kind # "text"
             THEN /\ chat' = called("raised", <<>>)
                  /\ UNCHANGED generated_articles
             ELSE IF ContainsMarker(resp.text)
             THEN /\ generated_articles' =
                        IF index # <<>>
                        THEN update_article(generated_articles, index[1],
                                            StripText(AfterMarker(resp.text)))
                        ELSE generated_articles
                  /\ chat' = called("returned",
                                    StripText(BeforeMarker(resp.text))
                                    \o <<"\n\nArticle has been updated.">>)
             ELSE /\ chat' = called("returned", resp.text)
                  /\ UNCHANGED generated_articles
    /\ UNCHANGED <<one, two>>

NextChat == GenerateArticle \/ ChatWithAi

SpecChat == InitChat /\ [][NextChat]_vars

(* ========================= properties =================================== *)
\* positions of search_and_extract after the search stage
AfterSearch == {"filter", "extract", "format", "done", "raised"}
\* positions after filter_relevant has returned
AfterFilter == {"extract", "format", "done"}

JudgeFailed == judge.kind \in {"error", "refusal"}

\* the numbered section headings of a document, in document order
IsResultLine(l) == l.kind = "result"
Sections(d) == SelectSeq(d, IsResultLine)
IsFenceLine(l) == l.kind = "fence"
Fences(d) == SelectSeq(d, IsFenceLine)

TitleUrl(res) == [i \in 1..Len(res) |-> [title |-> res[i]["title"], url |-> res[i]["url"]]]

\* C1: the list filter_relevant returns has at most MAX_RELEVANT_RESULTS
\* entries, and the returned document at most that many numbered sections.
C1_AtMostN ==
    /\ pc \in AfterFilter => Len(filtered_results) <= MAX_RELEVANT_RESULTS
    /\ pc = "done" => Len(Sections(doc)) <= MAX_RELEVANT_RESULTS

\* C2 as stated: once the search stage is over, search_serper has been
\* invoked if and only if the primary backend returned no hit at all.
C2_FallbackIffNoPrimaryHit ==
    pc \in AfterSearch => (serper_calls # <<>> <=> primary_returned = <<>>)

\* C2 amended: search_serper is invoked only after every primary call has
\* returned and all of them returned nothing; and once the search stage is
\* over it has been invoked if and only if the primary backend returned no
\* hit at all and there is at least one query.
C2_FallbackIffNoPrimaryHitAndQuery ==
    /\ serper_calls # <<>> =>
          primary_returned = <<>> /\ search_calls = queries
    /\ pc \in AfterSearch =>
          (serper_calls # <<>> <=> (primary_returned = <<>> /\ queries # <<>>))

C2_Witness ==
    /\ pc = "filter"
    /\ serper_calls # <<>>
    /\ Len(search_calls) = 2
    /\ Len(requests) > Len(queries) + Len(queries)

\* C3: filter_relevant never raises, and when the judge call fails it
\* returns the minimal {title, url} list of its input, whole and in order.
C3_FilterNeverRaises ==
    /\ pc # "raised"
    /\ (pc \in AfterFilter /\ JudgeFailed) =>
          TitleUrl(filtered_results) = minimal_results(filter_in)

\* the lines of a well-formed document: the header naming the topic, then
\* the no-results line alone or three lines per numbered section
WellFormed(d) ==
    /\ Len(d) >= 4
    /\ SubSeq(d, 1, 3) = Header(topic)
    /\ \/ SubSeq(d, 4, Len(d)) = <<NoResultsLine>>
       \/ /\ (Len(d) - 3) % 3 = 0
          /\ \A k \in 1..((Len(d) - 3) \div 3) :
                /\ d[3 * k + 1].kind = "result" /\ d[3 * k + 1].n = k
                /\ d[3 * k + 2].kind = "label"
                /\ d[3 * k + 3].kind = "fence" /\ d[3 * k + 3].text # ""

\* C4: whatever the backends, the judge and the fetches do, no exception
\* leaves search_and_extract and the value it returns is a well-formed
\* document.
C4_NeverPropagates ==
    /\ pc # "raised"
    /\ pc = "done" => WellFormed(doc)

LastContent == final_results[Len(final_results)]["extracted_content"]

\* C5: extract_paragraphs returns "" when the fetch or the parse fails and
\* when no paragraph of the page is longer than the threshold.
C5_ExtractFailureGivesEmpty ==
    (/\ last.api = "fetch"
     /\ \/ last.kind # "ok"
        \/ \A i \in 1..Len(last.paragraphs) :
              Len(last.paragraphs[i].text) <= MIN_PARAGRAPH_LENGTH)
    => LastContent = ""

C5_Witness ==
    /\ last.api = "fetch"
    /\ last.kind = "ok"
    /\ last.paragraphs = <<P50>>
    /\ LastContent = ""

\* C6: a call of search or search_serper issues one request per source
\* whatever the earlier requests did, and returns exactly the concatenation
\* of the hits of its requests that succeeded.
C6_ReturnsHitsOfSucceededRequests ==
    lastcall.api # "none" =>
        /\ lastcall.issued = Len(SourcesOrBlank(sources))
        /\ lastcall.ret = lastcall.ok_hits

\* C7: when the judge returns h1..hk the document has exactly k numbered
\* sections and section i, numbered i, carries the title and url of hi.
C7_OrderPreserved ==
    (pc = "done" /\ judge.kind = "ok") =>
        /\ Len(Sections(doc)) = Len(judge.results)
        /\ \A i \in 1..Len(judge.results) :
              /\ Sections(doc)[i].n = i
              /\ Sections(doc)[i].title = judge.results[i].title
              /\ Sections(doc)[i].url = judge.results[i].url

C7_Witness ==
    /\ pc = "done"
    /\ judge.kind = "ok"
    /\ Len(judge.results) = 2
    /\ judge.results[1] # judge.results[2]

\* the (query, source) pairs of an invocation, in the order of the loops
AllPairs ==
    LET srcs == SourcesOrBlank(sources)
    IN [k \in 1..(Len(queries) * Len(srcs)) |->
           [query |-> queries[((k - 1) \div Len(srcs)) + 1],
            source |-> srcs[((k - 1) % Len(srcs)) + 1]]]

SerperRequests ==
    LET IsSerper(r) == r.api = "serper"
        rs == SelectSeq(requests, IsSerper)
    IN [k \in 1..Len(rs) |-> [query |-> rs[k].query, source |-> rs[k].source]]

\* C8: when every primary call returned nothing, search_serper is called
\* exactly once per query, one request per (query, source) pair, the list
\* handed to the filter is the concatenation of what those calls returned,
\* and one hit surviving the filter gives exactly one numbered section.
C8_FallbackOncePerQuery ==
    (pc \in AfterSearch /\ primary_returned = <<>>) =>
        /\ serper_calls = queries
        /\ SerperRequests = AllPairs
        /\ all_results = serper_returned
        /\ pc \in AfterFilter \cup {"raised"} => filter_in = serper_returned
        /\ (pc = "done" /\ Len(filtered_results) = 1) => Len(Sections(doc)) = 1

C8_Witness ==
    /\ pc = "done"
    /\ primary_returned = <<>>
    /\ Len(serper_calls) = 2
    /\ Len(sources) = 2
    /\ Len(filter_in) = 1
    /\ Len(filtered_results) = 1
    /\ Len(Sections(doc)) = 1

AllExtractionsEmpty ==
    \A i \in 1..Len(final_results) : final_results[i]["extracted_content"] = ""

\* C9: when the judge call fails and every extraction gives "", the document
\* has one numbered section per entry of the minimal list and every section
\* shows "No content extracted.".
C9_PassThroughAllSentinel ==
    (pc = "done" /\ JudgeFailed /\ AllExtractionsEmpty) =>
        /\ Len(Sections(doc)) = Len(minimal_results(filter_in))
        /\ Len(Fences(doc)) = Len(minimal_results(filter_in))
        /\ \A i \in 1..Len(Fences(doc)) :
              Fences(doc)[i].text = "No content extracted."

C9_Witness ==
    /\ pc = "done"
    /\ JudgeFailed
    /\ AllExtractionsEmpty
    /\ Len(minimal_results(filter_in)) = 5
    /\ Len(Sections(doc)) = 5

\* C10: the document of an empty hit list has the line "No relevant results
\* found." and no numbered section, whatever the topic.
C10_EmptyGivesSentinel ==
    (pc = "done" /\ final_results = <<>>) =>
        /\ \E i \in 1..Len(doc) : doc[i].text = "No relevant results found."
        /\ Sections(doc) = <<>>
        /\ Fences(doc) = <<>>

C10_Witness ==
    /\ pc = "done"
    /\ final_results = <<>>
    /\ topic = ""
    /\ filter_in # <<>>

\* the {title, url} pairs filter_relevant returned
FilterReturned ==
    IF judge.kind = "ok" THEN judge.results ELSE judge.candidates

\* C11: every hit the filter returned is in the final list, in its place,
\* whether or not its extraction succeeded, and every hit of the final list
\* has an extracted_content, which is "" when the fetch failed.
C11_HitsRetainedWithText ==
    /\ pc \in {"format", "done"} =>
          /\ Len(final_results) = Len(FilterReturned)
          /\ TitleUrl(final_results) = FilterReturned
    /\ \A i \in 1..Len(final_results) :
          "extracted_content" \in DOMAIN final_results[i]
    /\ (last.api = "fetch" /\ last.kind # "ok") =>
          /\ final_results # <<>>
          /\ LastContent = ""

C11_Witness ==
    /\ pc = "done"
    /\ Len(final_results) = 2
    /\ last.api = "fetch" /\ last.kind = "network"
    /\ final_results[1]["extracted_content"] # ""
    /\ final_results[2]["extracted_content"] = ""

\* C12: every hit the filter returns is one of the {title, url} pairs that
\* were sent to the judge.
C12_OnlyCandidates ==
    pc \in AfterFilter =>
        \A i \in 1..Len(filtered_results) :
            [title |-> filtered_results[i]["title"], url |-> filtered_results[i]["url"]]
                \in Range(judge.candidates)

\* a step after the return of the filter that leaves titles and urls alone
TitleUrlKept ==
    pc \in AfterFilter =>
          /\ Len(filtered_results') = Len(filtered_results)
          /\ \A i \in 1..Len(filtered_results) :
                /\ filtered_results'[i]["title"] = filtered_results[i]["title"]
                /\ filtered_results'[i]["url"] = filtered_results[i]["url"]
                /\ DOMAIN filtered_results'[i] \subseteq
                      DOMAIN filtered_results[i] \cup {"extracted_content"}
          /\ \A i \in 1..Len(final_results) : final_results'[i] = final_results[i]
          /\ pc' = "done" =>
                \A i \in 1..Len(Sections(doc')) :
                    /\ Sections(doc')[i].title = FilterReturned[i].title
                    /\ Sections(doc')[i].url = FilterReturned[i].url

\* C13: from the return of the filter on, a step leaves the title and the
\* url of every hit as they are, adds no key but extracted_content, and
\* leaves the hits already in final_results untouched; the document shows
\* the titles and urls the filter returned.
C13_TitleUrlFrozen == [][TitleUrlKept]_vars

C13_Witness ==
    /\ pc = "done"
    /\ Len(final_results) = 2
    /\ final_results[1]["extracted_content"] # ""
    /\ final_results[1]["title"] # final_results[2]["title"]

RequestsOf(api) ==
    LET Is(r) == r.api = api
    IN Len(SelectSeq(requests, Is))

\* C14: the fallback decision is taken when search has returned for every
\* query; the judge is called when all searching is over; no page is fetched
\* before the filter has returned; the document is made when every hit of
\* the filter has been through extraction.
C14_StagesInOrder ==
    /\ pc \notin {"search", "decide"} =>
          /\ search_calls = queries
          /\ RequestsOf("search") = Len(queries) * Len(SourcesOrBlank(sources))
    /\ pc = "decide" => search_calls = queries /\ results = <<>>
    /\ serper_calls # <<>> => pc \notin {"search", "decide"}
    /\ judge.kind # "none" =>
          /\ pc \in AfterFilter
          /\ results = <<>>
          /\ serper_calls \in {<<>>, queries}
          /\ RequestsOf("serper") \in {0, Len(queries) * Len(SourcesOrBlank(sources))}
          /\ filter_in = all_results
    /\ (final_results # <<>> \/ last.api = "fetch") => judge.kind # "none"
    /\ pc \in {"format", "done"} => Len(final_results) = Len(filtered_results)
    /\ doc # <<>> => pc = "done"

C14_Witness ==
    /\ pc = "done"
    /\ Len(queries) = 2 /\ Len(sources) = 2
    /\ RequestsOf("search") = 4 /\ RequestsOf("serper") = 4
    /\ Len(final_results) = 2

\* the arguments invocation i was entered with
CallOf(i) ==
    [queries |-> inv[i].queries, sources |-> inv[i].sources, topic |-> inv[i].topic]

\* invocation i has left search_and_extract
Left(i) == inv[i].pc \in {"done", "raised"}

\* C15: two invocations of search_and_extract on the same instance, whose
\* steps interleave in any order, each leave the way they leave when run
\* alone and return the document they return when run alone, and the
\* answers of the services are not changed by the invocations
C15_ConcurrentAsAlone ==
    \A i \in DOMAIN inv :
        Left(i) =>
            LET alone == Alone(Start(CallOf(i)), <<>>, world)
            IN inv[i].pc = alone.pc /\ inv[i].doc = alone.doc

\* invocation 1 has returned a document with a result section while
\* invocation 2, entered with other arguments, is in its extraction loop with
\* hits of its own
C15_Witness ==
    /\ inv # <<>>
    /\ inv[1].pc = "done"
    /\ Sections(inv[1].doc) # <<>>
    /\ inv[2].pc = "extract"
    /\ inv[2].final_results # <<>>
    /\ inv[2].queries # inv[1].queries
    /\ slots[1] # slots[2]

\* the (query, source) pairs requested from a backend, in order
RequestPairs(api) ==
    LET Is(r) == r.api = api
        rs == SelectSeq(requests, Is)
    IN [k \in 1..Len(rs) |-> [query |-> rs[k].query, source |-> rs[k].source]]

\* the text a request for a query and a source has to carry
Scoped(r) ==
    IF sources = <<>> THEN r.source = "" /\ r.q = r.query
    ELSE r.source \in Range(sources) /\ r.q = r.query \o " site:" \o r.source

\* C16: a backend call issues one request per source, each carrying the
\* restriction to that source, and a single request carrying the bare query
\* when there is no source.
C16_OneRequestPerSource ==
    /\ \A k \in 1..Len(requests) : Scoped(requests[k])
    /\ lastcall.api # "none" =>
          lastcall.issued = IF sources = <<>> THEN 1 ELSE Len(sources)
    /\ pc # "search" => RequestPairs("search") = AllPairs
    /\ (pc \in AfterSearch /\ serper_calls # <<>>) => RequestPairs("serper") = AllPairs

C16_Witness ==
    /\ pc = "filter"
    /\ Len(sources) = 2
    /\ Len(queries) = 2
    /\ RequestsOf("serper") = 4
    /\ requests[8].q = "q2 site:s2.com"

\* the positions of filter_in that have a non-empty title and url
KeptPositions ==
    {i \in 1..Len(filter_in) :
        /\ "title" \in DOMAIN filter_in[i] /\ filter_in[i]["title"] # ""
        /\ "url" \in DOMAIN filter_in[i] /\ filter_in[i]["url"] # ""}

KeptPosition(k) ==
    CHOOSE i \in KeptPositions : Cardinality({j \in KeptPositions : j <= i}) = k

ExpectedCandidates ==
    [k \in 1..Cardinality(KeptPositions) |->
        [title |-> filter_in[KeptPosition(k)]["title"],
         url |-> filter_in[KeptPosition(k)]["url"]]]

\* C17: the candidates sent to the judge, and the list returned when the
\* judge fails, are the input hits that have a non-empty title and url, each
\* reduced to its title and url, in input order.
C17_MinimalCandidates ==
    (judge.kind # "none" /\ final_results = <<>>) =>
        /\ judge.candidates = ExpectedCandidates
        /\ JudgeFailed => filtered_results = ExpectedCandidates

C17_Witness ==
    /\ JudgeFailed
    /\ pc = "extract" /\ final_results = <<>>
    /\ Len(filter_in) = 4
    /\ Len(filtered_results) = 3
    /\ "content" \in DOMAIN filter_in[1]

\* C18: every hit handed to the filter is a {title, url, optional snippet}
\* object, whichever backend it came from.
C18_NormalizedHits ==
    pc \in AfterSearch =>
        \A i \in 1..Len(all_results) :
            /\ IsDict(all_results[i])
            /\ {"title", "url"} \subseteq DOMAIN all_results[i]
            /\ DOMAIN all_results[i] \subseteq {"title", "url", "snippet"}

\* the text of the paragraphs longer than the threshold, in page order,
\* with a blank line between two of them
RECURSIVE ExpectedContent(_)
ExpectedContent(ps) ==
    IF ps = <<>> THEN ""
    ELSE LET rest == ExpectedContent(Tail(ps))
         IN IF Len(Head(ps).text) <= 50 THEN rest
            ELSE IF rest = "" THEN Head(ps).text
            ELSE Head(ps).text \o "\n\n" \o rest

\* C19: on a successful fetch extract_paragraphs returns the stripped texts
\* of the paragraphs longer than 50 characters, in page order, joined by a
\* blank line; a paragraph of 50 characters is dropped.
C19_QualifyingParagraphsJoined ==
    (last.api = "fetch" /\ last.kind = "ok") =>
        /\ LastContent = ExpectedContent(last.paragraphs)
        /\ last.paragraphs = <<P50, P52, P50pad, P51>> =>
              LastContent = P52.text \o "\n\n" \o P51.text

C19_Witness ==
    /\ last.api = "fetch" /\ last.kind = "ok"
    /\ last.paragraphs = <<P50, P52, P50pad, P51>>
    /\ LastContent = P52.text \o "\n\n" \o P51.text

\* C20: the document of a non-empty hit list is the header with the topic,
\* "Not specified" for an empty topic, and then for hit i the heading
\* numbered i with its title and url, the label, and the fenced block with
\* its extracted text, "No content extracted." when that text is empty.
C20_SectionPerHit ==
    (pc = "done" /\ final_results # <<>>) =>
        /\ Len(doc) = 3 + 3 * Len(final_results)
        /\ doc[1].kind = "h1" /\ doc[3].kind = "h2"
        /\ doc[2].kind = "topic"
        /\ doc[2].text = IF topic = "" THEN "Not specified" ELSE topic
        /\ \A i \in 1..Len(final_results) :
              /\ doc[3 * i + 1].kind = "result"
              /\ doc[3 * i + 1].n = i
              /\ doc[3 * i + 1].title = final_results[i]["title"]
              /\ doc[3 * i + 1].url = final_results[i]["url"]
              /\ doc[3 * i + 2].kind = "label"
              /\ doc[3 * i + 3].kind = "fence"
              /\ doc[3 * i + 3].text =
                    IF final_results[i]["extracted_content"] = ""
                    THEN "No content extracted."
                    ELSE final_results[i]["extracted_content"]

C20_Witness ==
    /\ pc = "done"
    /\ topic = ""
    /\ Len(final_results) = 2
    /\ final_results[1]["extracted_content"] = ""
    /\ final_results[2]["extracted_content"] # ""

\* C21: the orchestrator never retries: a (query, source) pair is requested
\* at most once from each backend, the judge is called once, the extractor
\* is called once per hit the filter returned, and the invocation comes to
\* its return whenever every external call returns or fails.
C21_NoRetry ==
    /\ \A i, j \in 1..Len(requests) :
          (i # j /\ requests[i].api = requests[j].api) =>
              <<requests[i].query, requests[i].source>> #
              <<requests[j].query, requests[j].source>>
    /\ pc # "raised"
    /\ pc \in AfterFilter => judge.kind # "none"
    /\ pc \in {"format", "done"} => Len(final_results) = Len(filtered_results)

\* the external call recorded in last is the step that has just been taken
JustCalled(api) ==
    /\ last.api = api
    /\ CASE api = "search" -> pc \in {"search", "decide"}
         [] api = "serper" -> pc \in {"serper", "filter"}
         [] api = "judge" -> pc \in {"extract", "format"} /\ final_results = <<>>
         [] api = "fetch" -> pc \in {"extract", "format"}

\* C22: a failed request to a backend, a failed judge call and an extraction
\* that failed or found no qualifying paragraph each write a log line before
\* the pipeline goes on.
C22_FailuresLogged ==
    /\ (JustCalled("search") /\ ~last.ok) => printed # <<>>
    /\ (JustCalled("serper") /\ ~last.ok) => printed # <<>>
    /\ (JustCalled("judge") /\ ~last.ok) => "LLM filtering error" \in Range(printed)
    /\ (JustCalled("fetch") /\ LastContent = "") => printed # <<>>

\* the sections of the returned document that point to url
SectionsWithUrl(url) ==
    {k \in 1..Len(Sections(doc)) : Sections(doc)[k].url = url}

\* the candidates among the hits handed to the filter that point to url
HitsWithUrl(url) == {i \in KeptPositions : filter_in[i]["url"] = url}

\* C23: hits are not deduplicated: the list handed to the filter holds every
\* hit the backend calls returned, as many times as it was returned, and when
\* the judge fails the document has as many sections for a url as there are
\* candidates with that url.
C23_NoDeduplication ==
    /\ judge.kind # "none" => filter_in = primary_returned \o serper_returned
    /\ (pc = "done" /\ JudgeFailed) =>
          \A i \in KeptPositions :
              Cardinality(SectionsWithUrl(filter_in[i]["url"])) =
              Cardinality(HitsWithUrl(filter_in[i]["url"]))

\* two queries each got the same hit, the judge failed, and the document has
\* two sections for its url
C23_Witness ==
    /\ pc = "done"
    /\ JudgeFailed
    /\ search_calls = <<"q1", "q2">>
    /\ Len(lastcall.ret) = 1
    /\ Len(filter_in) = 2
    /\ filter_in[1] = filter_in[2]
    /\ KeptPositions = {1, 2}
    /\ Cardinality(SectionsWithUrl(filter_in[1]["url"])) = 2

\* C24: the document search_and_extract returns is never empty or blank: it
\* has the header and then the no-results line or at least one section, so
\* the caller's has_search_results is true after every call that returns and
\* its warning branch is not taken.
C24_DocumentNeverBlank ==
    pc = "done" =>
        /\ Text(doc) # ""
        /\ Len(doc) >= 4
        /\ SubSeq(doc, 1, 3) = Header(topic)
        /\ doc[4] = NoResultsLine \/ Sections(doc) # <<>>
        /\ has_search_results(doc)

\* a call in which no backend request gave a hit has returned, and the
\* caller's test is true of the document
C24_Witness ==
    /\ pc = "done"
    /\ queries # <<>>
    /\ primary_returned = <<>> /\ serper_returned = <<>>
    /\ final_results = <<>>
    /\ doc[4] = NoResultsLine
    /\ has_search_results(doc)

\* the last call of chat_with_ai got a response with the marker and an
\* index that is not None and points into the list
MayReplace ==
    /\ chat.kind = "returned"
    /\ ContainsMarker(chat.response)
    /\ chat.index # <<>>
    /\ 0 <= chat.index[1] /\ chat.index[1] < Len(chat.before)

\* what a call of chat_with_ai leaves as it was: the length of the list,
\* the whole list unless it may replace, and then every other article
ChatFrame ==
    chat.kind # "none" =>
        /\ Len(generated_articles) = Len(chat.before)
        /\ ~MayReplace => generated_articles = chat.before
        /\ MayReplace =>
              \A k \in 1..Len(chat.before) :
                  k # chat.index[1] + 1 => generated_articles[k] = chat.before[k]

\* C25 as stated: chat_with_ai replaces an article only on a response with
\* the marker and an index in range, the article at the index then becomes
\* the text after the first marker, and every other article and the length
\* of the list stay as they were.
C25_ReplacedByTextAfterMarker ==
    /\ ChatFrame
    /\ MayReplace =>
          generated_articles[chat.index[1] + 1] = AfterMarker(chat.response)

\* C25 amended: as above, the article at the index becoming the text after
\* the first marker with its leading and trailing whitespace removed.
C25_ReplacedByStrippedText ==
    /\ ChatFrame
    /\ MayReplace =>
          generated_articles[chat.index[1] + 1] = StripText(AfterMarker(chat.response))

\* the second of two articles was replaced by a text that had whitespace
\* after the marker
C25_Witness ==
    /\ MayReplace
    /\ Len(chat.before) = 2
    /\ chat.index = <<1>>
    /\ generated_articles # chat.before
    /\ AfterMarker(chat.response) # StripText(AfterMarker(chat.response))
    /\ generated_articles[2] = <<"x">>

====
